---- MODULE Spec2Model ----
(***************************************************************************)
(* Netrex RakNet: the per-connection receive pipeline of src/src/conn.rs   *)
(* driven by the receive thread of src/src/server.rs, and the send queue   *)
(* of src/src/connection/queue/send.rs.                                    *)
(*                                                                         *)
(* Parts of the crate that the sources above call but that are not among   *)
(* them (AckQueue, NAckQueue, FragmentStore, the offline and online        *)
(* handlers, RecoveryQueue, FragmentQueue, SafeGenerator, Reliability) are *)
(* modelled from the written specification; each such definition says so.  *)
(***************************************************************************)
EXTENDS Integers, Sequences, FiniteSets, TLC

(***************************************************************************)
(* Bounds of the model.                                                    *)
(***************************************************************************)
\* Connection.send_queue is never drained in the peer table (the tick works
\* on a clone), so its length is capped in the guards.
MaxSendQueue == 4
\* Connection.send_queue_large is never drained either.
MaxSendQueueLarge == 1
\* How many frame packets the SendQueue builds: how far its sequence counter
\* advances, the frames waiting in SendQueue.ready counted in.
MaxSends == 2
\* The number of datagrams the SendQueue writes to the socket: the new frame
\* packets and one more, a retransmission.
MaxSocket == MaxSends + 1
\* The inactivity timeout, in iterations of the sender thread (one every
\* 50 ms at least).
InactivityTicks == 2

(***************************************************************************)
(* Packet identifiers (first byte of a datagram or of a frame body).       *)
(***************************************************************************)
ID_OPEN_CONNECTION_REQUEST_2 == 7
ID_OPEN_CONNECTION_REPLY_2 == 8
ID_CONNECTION_REQUEST == 9
ID_CONNECTION_ACCEPTED == 16
ID_NEW_INCOMING_CONNECTION == 19
ID_GAME_PACKET == 254
ID_FRAME_PACKET == 128
ID_ACK == 192
ID_NACK == 160

\* The MTU the peer proposes in its Open Connection Request 2.
PeerMtu == 4

\* Option<T>: None, or Some(v).
None == <<>>

Some(v) == <<v>>

is_some(o) == o # <<>>

unwrap(o) == o[1]

(***************************************************************************)
(* Small helpers.                                                          *)
(***************************************************************************)
Last(s) == s[Len(s)]

SeqToSet(s) == {s[i] : i \in 1..Len(s)}

Min(S) == CHOOSE x \in S : \A y \in S : x <= y

Max(S) == CHOOSE x \in S : \A y \in S : x >= y

Count(s, P(_)) == Cardinality({i \in 1..Len(s) : P(s[i])})

(***************************************************************************)
(* Frames and frame packets as conn.rs sees them after decoding.           *)
(***************************************************************************)
Frame(rel, ridx, sidx, oidx, och, finfo, body) ==
    [reliability |-> rel, reliable_index |-> ridx, sequence_index |-> sidx,
     order_index |-> oidx, order_channel |-> och, fragment_info |-> finfo,
     body |-> body]

FragmentInfo(size, id, index) ==
    [fragment_size |-> size, fragment_id |-> id, fragment_index |-> index]

\* Frame::init followed by the two assignments conn.rs makes.
UnreliableFrame(body) == Frame("Unreliable", None, None, None, None, None, body)

\* A datagram of the send_queue or of the socket, after encoding.  Every
\* datagram has the same fields so that they compare.
Datagram(kind, seq, seqs, frames, body) ==
    [kind |-> kind, seq |-> seq, seqs |-> seqs, frames |-> frames, body |-> body]

FramePacketDatagram(seq, frames) == Datagram("FramePacket", seq, {}, frames, <<>>)

AckDatagram(seqs) == Datagram("Ack", 0, seqs, <<>>, <<>>)

NackDatagram(seqs) == Datagram("Nack", 0, seqs, <<>>, <<>>)

OfflineDatagram(body) == Datagram("Offline", 0, {}, <<>>, body)

\* ACK / NACK records.
Single(s) == [single |-> TRUE, start |-> s, end |-> s]

Range(a, b) == [single |-> FALSE, start |-> a, end |-> b]

(***************************************************************************)
(* Connection (conn.rs).                                                   *)
(***************************************************************************)
ConnectionStates == {"Connecting", "Connected", "Disconnected", "Offline"}

is_disconnected(state) == state = "Disconnected"

\* Connection::new.
NewConnection(address) ==
    [address |-> address,
     mtu_size |-> 0,
     state |-> "Disconnected",
     send_queue |-> <<>>,
     send_queue_large |-> <<>>,
     fragmented |-> <<>>,
     recv_seq |-> 0,
     send_seq |-> 0,
     fragment_id |-> 0,
     ack |-> {},
     nack |-> {}]

\* AckQueue / NAckQueue: an ordered set of sequence numbers.
has_seq(aq, sequence) == sequence \in aq

push_seq(aq, sequence) == aq \cup {sequence}

\* Range::get_sequences: both endpoints included.
get_sequences(record) == record.start..record.end

\* The sequences of a list of records, Single or Range.
RecordSequences(records) ==
    UNION {IF records[i].single THEN {records[i].start} ELSE get_sequences(records[i]) :
           i \in 1..Len(records)}

\* Connection::handle_ack: every sequence of the inbound records that is not in
\* the AckQueue goes to the NackQueue; then a pending AckQueue is turned into
\* one ACK on the send_queue, and a pending NackQueue into one NACK.  make_ack
\* and make_nack emit all pending sequences and clear the queue.
handle_ack(c, records) ==
    LET pushed == {s \in RecordSequences(records) : ~has_seq(c.ack, s)}
        nack1 == c.nack \cup pushed
        q1 == IF c.ack # {} THEN Append(c.send_queue, AckDatagram(c.ack))
              ELSE c.send_queue
        q2 == IF nack1 # {} THEN Append(q1, NackDatagram(nack1)) ELSE q1
    IN [c EXCEPT !.send_queue = q2, !.ack = {}, !.nack = {}]

\* Connection::next_send_seq: the old value is used.  The counter is a u32: it
\* does not wrap at 2^24, and the model stays far below 2^32.
next_send_seq(c) == [c EXCEPT !.send_seq = @ + 1]

\* Connection::send.
send(c, stream, instant) ==
    IF instant
    THEN LET pk == FramePacketDatagram(c.send_seq, <<UnreliableFrame(stream)>>)
         IN [next_send_seq(c) EXCEPT !.send_queue = Append(@, pk)]
    ELSE [c EXCEPT !.send_queue_large = Append(@, stream)]

\* handle_offline: Open Connection Request 2 finalises the MTU, moves the
\* connection to Connecting and is answered by Open Connection Reply 2; any
\* other datagram is not recognised and yields an empty reply.
handle_offline(c, id) ==
    IF id = ID_OPEN_CONNECTION_REQUEST_2
    THEN [c |-> [c EXCEPT !.state = "Connecting", !.mtu_size = PeerMtu],
          reply |-> <<ID_OPEN_CONNECTION_REPLY_2>>]
    ELSE [c |-> c, reply |-> <<>>]

\* handle_online: Connection Request is answered by Connection Accepted, New
\* Incoming Connection moves the connection to Connected, anything else is
\* dropped without a reply.
handle_online(c, id) ==
    CASE id = ID_CONNECTION_REQUEST ->
           [c |-> c, response |-> <<ID_CONNECTION_ACCEPTED, 0>>]
      [] id = ID_NEW_INCOMING_CONNECTION ->
           [c |-> [c EXCEPT !.state = "Connected"], response |-> <<>>]
      [] OTHER -> [c |-> c, response |-> <<>>]

\* Connection::fragment returns only when its loop reaches offset = 0: at once
\* for a stream no longer than mtu_size, and otherwise when the length is a
\* multiple of a positive mtu_size (offset is a usize that is decremented by
\* mtu_size and compared with 0 only).
fragment_returns(c, length) ==
    \/ length <= c.mtu_size
    \/ c.mtu_size > 0 /\ length % c.mtu_size = 0

\* Connection::fragment as far as the connection is concerned: the packets it
\* assembles are dropped, only fragment_id changes.
fragment(c, stream) ==
    LET usable_id == c.fragment_id + 1
        reset == IF usable_id = 65535 THEN 0 ELSE c.fragment_id
    IN [c EXCEPT !.fragment_id = (reset + 1) % 65536]

\* One invocation of the user callback (Connection.recv), as the user sees it,
\* with the sequence of the frame packet whose handling caused it.
Delivery(address, seq, frame) ==
    [address |-> address, seq |-> seq, order_index |-> frame.order_index,
     order_channel |-> frame.order_channel,
     sequence_index |-> frame.sequence_index,
     compound |-> IF is_some(frame.fragment_info)
                  THEN Some(unwrap(frame.fragment_info).fragment_id) ELSE None,
     body |-> frame.body]

\* Connection::handle_full_frame on x = [c, cb, ok]: c the connection, cb the
\* callback invocations so far, ok whether every call so far has returned.
handle_full_frame(x, frame, seq) ==
    IF Head(frame.body) = ID_GAME_PACKET
    THEN [x EXCEPT !.cb = Append(@, Delivery(x.c.address, seq, frame))]
    ELSE LET r == handle_online(x.c, Head(frame.body))
             response == r.response
         IN IF Len(response) = 0 THEN [x EXCEPT !.c = r.c]
            ELSE IF Len(response) > r.c.mtu_size
            THEN [x EXCEPT !.c = fragment(r.c, response),
                           !.ok = @ /\ fragment_returns(r.c, Len(response))]
            ELSE LET pk == FramePacketDatagram(r.c.send_seq, <<UnreliableFrame(response)>>)
                 IN [x EXCEPT !.c = [r.c EXCEPT !.send_queue = Append(@, pk),
                                                !.send_seq = @ + 1]]

(***************************************************************************)
(* FragmentStore of the receive side: compound id -> the fragments stored  *)
(* so far, by fragment index.  A compound can be reassembled when the      *)
(* number of stored indices equals its size; the bodies are concatenated   *)
(* in index order and the other fields come from the first fragment.       *)
(***************************************************************************)
\* FragmentStore::add_frame.
add_frame(store, frame) ==
    LET info == unwrap(frame.fragment_info)
        id == info.fragment_id
        old == IF id \in DOMAIN store THEN store[id] ELSE <<>>
        new == [i \in DOMAIN old \cup {info.fragment_index} |->
                   IF i = info.fragment_index THEN frame ELSE old[i]]
    IN [k \in DOMAIN store \cup {id} |-> IF k = id THEN new ELSE store[k]]

\* FragmentStore::get.
get(store, id) == IF id \in DOMAIN store THEN Some(store[id]) ELSE None

\* FragmentStore::remove.
remove(store, id) == [k \in DOMAIN store \ {id} |-> store[k]]

RECURSIVE ConcatBodies(_, _)
\* The bodies of the fragments whose indices are in todo, in ascending index order.
ConcatBodies(list, todo) ==
    IF todo = {} THEN <<>>
    ELSE LET i == Min(todo) IN list[i].body \o ConcatBodies(list, todo \ {i})

\* FragmentList::reassemble_frame.
reassemble_frame(list) ==
    LET first == list[Min(DOMAIN list)]
        size == unwrap(first.fragment_info).fragment_size
    IN IF Cardinality(DOMAIN list) = size
       THEN Some([first EXCEPT !.body = ConcatBodies(list, DOMAIN list)])
       ELSE None

\* handle_frame with the removal of a delivered compound forgotten.
handle_frame_keeps_compound(x, frame, seq) ==
    IF is_some(frame.fragment_info)
    THEN LET id == unwrap(frame.fragment_info).fragment_id
             stored == add_frame(x.c.fragmented, frame)
             x1 == [x EXCEPT !.c.fragmented = stored]
             frag_list == get(stored, id)
         IN IF is_some(frag_list)
            THEN LET pk == reassemble_frame(unwrap(frag_list))
                 IN IF is_some(pk)
                    THEN handle_full_frame(x1, unwrap(pk), seq)
                    ELSE x1
            ELSE x1
    ELSE handle_full_frame(x, frame, seq)

\* The body of the loop of Connection::handle_frames, for one frame.
handle_frame(x, frame, seq) ==
    IF is_some(frame.fragment_info)
    THEN LET id == unwrap(frame.fragment_info).fragment_id
             stored == add_frame(x.c.fragmented, frame)
             x1 == [x EXCEPT !.c.fragmented = stored]
             frag_list == get(stored, id)
         IN IF is_some(frag_list)
            THEN LET pk == reassemble_frame(unwrap(frag_list))
                 IN IF is_some(pk)
                    THEN LET x2 == handle_full_frame(x1, unwrap(pk), seq)
                         IN [x2 EXCEPT !.c.fragmented = remove(@, id)]
                    ELSE x1
            ELSE x1
    ELSE handle_full_frame(x, frame, seq)

RECURSIVE handle_frames_loop(_, _, _)
handle_frames_loop(x, frames, seq) ==
    IF frames = <<>> THEN x
    ELSE handle_frames_loop(handle_frame(x, Head(frames), seq), Tail(frames), seq)

\* Connection::handle_frames.
handle_frames(x, frame_packet) ==
    handle_frames_loop([x EXCEPT !.c.ack = push_seq(@, frame_packet.seq)],
                       frame_packet.frames, frame_packet.seq)

\* Connection::recv on one datagram.
recv(x, datagram) ==
    IF is_disconnected(x.c.state)
    THEN LET handler == handle_offline(x.c, datagram.id)
         IN [x EXCEPT !.c = [handler.c EXCEPT
                 !.send_queue = Append(@, OfflineDatagram(handler.reply))]]
    ELSE IF datagram.id \in {ID_ACK, ID_NACK}
    THEN [x EXCEPT !.c = handle_ack(x.c, datagram.records)]
    ELSE IF datagram.id # ID_FRAME_PACKET
    THEN x
    ELSE handle_frames([x EXCEPT !.c = handle_ack(x.c, <<>>)], datagram)

(***************************************************************************)
(* SendQueue (connection/queue/send.rs).                                   *)
(***************************************************************************)
\* A frame packet's sequence number has 24 bits.  The second specification
\* starts the queue's sequence counter at the last 24-bit value.
SequenceModulus == 16777216

WrapStart == SequenceModulus - 1

\* How far a counter has advanced from where its specification started it.
Advanced(v) == IF v >= WrapStart THEN v - WrapStart ELSE v

\* Reliability and its predicates, in the usual RakNet mapping.
Reliabilities ==
    {"Unreliable", "UnreliableSeq", "Reliable", "ReliableOrd", "ReliableSeq",
     "UnreliableAck", "ReliableAck", "ReliableOrdAck"}

is_reliable(r) == r \in {"Reliable", "ReliableOrd", "ReliableSeq", "ReliableAck", "ReliableOrdAck"}

is_ordered(r) == r \in {"ReliableOrd", "ReliableOrdAck"}

is_sequenced(r) == r \in {"UnreliableSeq", "ReliableSeq"}

\* The MTU the queue is constructed with.
QueueMtu == 4

\* The number of retransmissions the queue is constructed with (_max_tries).
QueueMaxTries == 1

\* The frame header overhead, on the scale of QueueMtu.
RAKNET_HEADER_FRAME_OVERHEAD == 1

\* A payload is modelled by its length; a frame body is a slice of it.
Slice(offset, size) == [offset |-> offset, size |-> size]

\* Frame::new(reliability, Some(packet)).
NewFrame(reliability, length) ==
    Frame(reliability, None, None, None, None, None, Slice(0, length))

\* SendQueue::new.
NewSendQueue(mtu_size, max_tries, start) ==
    [mtu_size |-> mtu_size,
     max_tries |-> max_tries,
     send_seq |-> start,
     reliable_seq |-> 0,
     ack |-> <<>>,
     fragment_queue |-> [fragment_id |-> 0, fragments |-> <<>>],
     order_channels |-> <<>>,
     ready |-> <<>>]

\* SafeGenerator<u32>::next hands out the current value and advances by one;
\* get reads the current value.  The counter is 32 bits wide, far above the
\* values of the model.
next(v) == v + 1

\* RecoveryQueue: key -> FramePacket.
insert_id(rq, key, item) ==
    [k \in DOMAIN rq \cup {key} |-> IF k = key THEN item ELSE rq[k]]

recovery_remove(rq, key) == [k \in DOMAIN rq \ {key} |-> rq[k]]

recovery_get(rq, key) == IF key \in DOMAIN rq THEN Some(rq[key]) ELSE None

RECURSIVE InKeyOrder(_, _)
\* The entries of a RecoveryQueue under the keys of a set, in key order.
InKeyOrder(rq, keys) ==
    IF keys = {} THEN <<>>
    ELSE LET k == Min(keys) IN <<rq[k]>> \o InKeyOrder(rq, keys \ {k})

\* RecoveryQueue::flush: the entries older than the retransmit timeout, here
\* the ones under the keys of stale; they stay in the queue until acknowledged.
flush(rq, stale) == InKeyOrder(rq, stale)

\* What send_to writes: the encoded frame packet.
Wire(pk) == [sequence |-> pk.sequence, frames |-> pk.frames]

\* SendQueue::send_stream on y = [q, out, tried, fail]: q the queue, out the
\* datagrams written to the socket so far, tried the calls of send_to in
\* this call of the queue, fail the ones of them that return an error.  An
\* error is logged and nothing else.
send_stream(y, pk) ==
    [y EXCEPT !.tried = @ + 1,
              !.out = IF (y.tried + 1) \in y.fail THEN @ ELSE Append(@, Wire(pk))]

\* send_frame that records a reliable packet for recovery only when its
\* write has succeeded.
send_frame_forgets_failed(y, frame) ==
    LET reliable == is_reliable(frame.reliability)
        sequence == y.q.send_seq
        failed == (y.tried + 1) \in y.fail
        frame1 == IF reliable THEN [frame EXCEPT !.reliable_index = Some(y.q.reliable_seq)]
                  ELSE frame
        reliable_seq1 == IF reliable THEN next(y.q.reliable_seq) ELSE y.q.reliable_seq
        pk == [sequence |-> sequence, reliability |-> frame.reliability,
               frames |-> <<frame1>>]
        ack1 == IF reliable /\ ~failed THEN insert_id(y.q.ack, reliable_seq1, pk) ELSE y.q.ack
    IN send_stream([y EXCEPT !.q.send_seq = next(sequence),
                             !.q.reliable_seq = reliable_seq1,
                             !.q.ack = ack1], pk)

\* SendQueue::send_frame.
send_frame(y, frame) ==
    LET reliable == is_reliable(frame.reliability)
        sequence == y.q.send_seq
        frame1 == IF reliable THEN [frame EXCEPT !.reliable_index = Some(y.q.reliable_seq)]
                  ELSE frame
        reliable_seq1 == IF reliable THEN next(y.q.reliable_seq) ELSE y.q.reliable_seq
        pk == [sequence |-> sequence, reliability |-> frame.reliability,
               frames |-> <<frame1>>]
        ack1 == IF reliable THEN insert_id(y.q.ack, reliable_seq1, pk) ELSE y.q.ack
    IN send_stream([y EXCEPT !.q.send_seq = next(sequence),
                             !.q.reliable_seq = reliable_seq1,
                             !.q.ack = ack1], pk)

\* FragmentQueue::split_insert: the payload is cut into fragments of
\* mtu - RAKNET_HEADER_FRAME_OVERHEAD bytes under a new compound id, indexed
\* from 0, and kept in the queue; it is refused when the number of fragments
\* does not fit 16 bits.
FragmentCount(length, mtu) ==
    LET size == mtu - RAKNET_HEADER_FRAME_OVERHEAD
    IN (length + size - 1) \div size

split_insert(fq, length, mtu) ==
    LET size == mtu - RAKNET_HEADER_FRAME_OVERHEAD
        n == FragmentCount(length, mtu)
        id == fq.fragment_id
        frames == [i \in 1..n |->
                      Frame("ReliableOrd", None, None, None, None,
                            Some(FragmentInfo(n, id, i - 1)),
                            Slice((i - 1) * size,
                                  IF i * size <= length THEN size
                                  ELSE length - (i - 1) * size))]
    IN IF n > 65535
       THEN [ok |-> FALSE, id |-> 0, fq |-> fq]
       ELSE [ok |-> TRUE, id |-> id,
             fq |-> [fragment_id |-> (id + 1) % 65536,
                     fragments |-> insert_id(fq.fragments, id, frames)]]

\* order_channels.entry(channel).or_insert((0, 0)): (sequence, index).
entry(order_channels, channel) ==
    IF channel \in DOMAIN order_channels THEN order_channels[channel] ELSE <<0, 0>>

unwrap_or(o, default) == IF is_some(o) THEN unwrap(o) ELSE default

RECURSIVE IndexFragments(_, _, _, _, _, _)
\* IndexFragments with the reliable counter read but not advanced inside the
\* loop: every fragment of a compound takes the same reliable index.
IndexFragments_one_reliable_index(frames, reliability, ord_seq, ord_index, channel, reliable_seq) ==
    <<[i \in 1..Len(frames) |->
          [frames[i] EXCEPT
              !.reliability = reliability,
              !.sequence_index = Some(ord_seq),
              !.order_channel = Some(channel),
              !.order_index = Some(ord_index),
              !.reliable_index = IF is_reliable(reliability)
                                 THEN Some(reliable_seq) ELSE @]],
      IF is_reliable(reliability) THEN next(reliable_seq) ELSE reliable_seq>>

\* The loop of insert over the fragments of a compound: every frame takes the
\* requested reliability and the channel's counters, a reliable frame takes
\* the next reliable index.  Yields <<frames, reliable_seq>>.
IndexFragments(frames, reliability, ord_seq, ord_index, channel, reliable_seq) ==
    IF frames = <<>> THEN <<(<<>>), reliable_seq>>
    ELSE LET f == [Head(frames) EXCEPT
                      !.reliability = reliability,
                      !.sequence_index = Some(ord_seq),
                      !.order_channel = Some(channel),
                      !.order_index = Some(ord_index),
                      !.reliable_index = IF is_reliable(reliability)
                                         THEN Some(reliable_seq) ELSE @]
             rest == IndexFragments(Tail(frames), reliability, ord_seq, ord_index, channel,
                                    IF is_reliable(reliability) THEN next(reliable_seq)
                                    ELSE reliable_seq)
         IN <<(<<f>> \o rest[1]), rest[2]>>

\* The payload does not fit one frame, as insert decides it.
NeedsSplit(q, length) == length > q.mtu_size + RAKNET_HEADER_FRAME_OVERHEAD

\* The branch of insert that splits the payload (send.rs 131-172).
insert_split(y, length, reliability, channel) ==
    LET q == y.q
        pk == [sequence |-> q.send_seq, reliability |-> reliability, frames |-> <<>>]
        q1 == [q EXCEPT !.send_seq = next(@)]
        fragmented == split_insert(q1.fragment_queue, length, q1.mtu_size)
        ch == unwrap_or(channel, 0)
        old == entry(q1.order_channels, ch)
        ord_seq == old[1] + 1
        ord_index == old[2] + 1
        indexed == IndexFragments(fragmented.fq.fragments[fragmented.id], reliability,
                                  ord_seq, ord_index, ch, q1.reliable_seq)
        q2 == [q1 EXCEPT
                  !.fragment_queue =
                      [fragmented.fq EXCEPT !.fragments[fragmented.id] = indexed[1]],
                  !.order_channels = insert_id(@, ch, <<ord_seq, ord_index>>),
                  !.reliable_seq = indexed[2],
                  !.ack = insert_id(@, pk.sequence, pk)]
    IN IF fragmented.ok
       THEN [y |-> send_stream([y EXCEPT !.q = q2], pk), result |-> "Ok"]
       ELSE [y |-> [y EXCEPT !.q = q1], result |-> "FragmentError"]

\* The branch of insert for a payload that fits one frame (send.rs 173-207).
insert_whole(y, length, reliable, immediate, channel) ==
    LET q == y.q
        ch == unwrap_or(channel, 0)
        old == entry(q.order_channels, ch)
        frame0 == NewFrame(reliable, length)
        frame1 == IF is_reliable(reliable)
                  THEN [frame0 EXCEPT !.reliable_index = Some(q.reliable_seq)] ELSE frame0
        q1 == IF is_reliable(reliable) THEN [q EXCEPT !.reliable_seq = next(@)] ELSE q
        frame2 == IF is_ordered(reliable)
                  THEN [frame1 EXCEPT !.order_index = Some(old[2] + 1),
                                      !.sequence_index = Some(q1.send_seq)]
                  ELSE IF is_sequenced(reliable)
                  THEN [frame1 EXCEPT !.order_index = Some(old[2]),
                                      !.sequence_index = Some(old[1] + 1)]
                  ELSE frame1
        q2 == IF is_ordered(reliable)
              THEN [q1 EXCEPT !.order_channels = insert_id(@, ch, <<old[1], old[2] + 1>>)]
              ELSE IF is_sequenced(reliable)
              THEN [q1 EXCEPT !.order_channels = insert_id(@, ch, <<old[1] + 1, old[2]>>)]
              ELSE q1
        y2 == [y EXCEPT !.q = q2]
    IN IF immediate
       THEN [y |-> send_frame(y2, frame2), result |-> "Ok"]
       ELSE [y |-> [y2 EXCEPT !.q.ready = Append(@, frame2)], result |-> "Ok"]

\* SendQueue::insert.
insert(y, length, reliability, immediate, channel) ==
    LET reliable == IF NeedsSplit(y.q, length) THEN "ReliableOrd" ELSE reliability
    IN IF reliability = "Unreliable"
       THEN [y |-> send_frame(y, NewFrame("Unreliable", length)), result |-> "Ok"]
       ELSE IF reliability = "Reliable"
       THEN [y |-> send_frame(y, NewFrame("Reliable", length)), result |-> "Ok"]
       ELSE IF NeedsSplit(y.q, length)
       THEN insert_split(y, length, reliability, channel)
       ELSE insert_whole(y, length, reliable, immediate, channel)

RECURSIVE send_frames(_, _)
\* The first loop of update: every ready frame goes through send_frame.
send_frames(y, frames) ==
    IF frames = <<>> THEN y
    ELSE send_frames(send_frame(y, Head(frames)), Tail(frames))

RECURSIVE send_streams(_, _)
\* The second loop of update: every packet of the resend queue is written.
send_streams(y, packets) ==
    IF packets = <<>> THEN y
    ELSE send_streams(send_stream(y, Head(packets)), Tail(packets))

\* SendQueue::update; stale are the keys of the recovery entries that flush
\* finds older than the timeout.
update(y, stale) ==
    LET y1 == send_frames([y EXCEPT !.q.ready = <<>>], y.q.ready)
    IN send_streams(y1, flush(y1.q.ack, stale \cap DOMAIN y1.q.ack))

\* The sequences a record of SendQueue::ack and SendQueue::nack visits:
\* ranged.start..ranged.end leaves the end out.
Visited(record) ==
    IF record.single THEN <<record.start>>
    ELSE [i \in 1..(record.end - record.start) |-> record.start + i - 1]

RECURSIVE Flatten(_)
Flatten(ss) == IF ss = <<>> THEN <<>> ELSE Head(ss) \o Flatten(Tail(ss))

VisitedAll(records) == Flatten([i \in 1..Len(records) |-> Visited(records[i])])

\* Ackable::ack for SendQueue.
ack(q, packet) ==
    IF packet.nack THEN q
    ELSE [q EXCEPT !.ack = [k \in DOMAIN q.ack \ SeqToSet(VisitedAll(packet.records)) |->
                               q.ack[k]]]

RECURSIVE Lookup(_, _)
\* The stored packets of a list of keys, one per key that is present.
Lookup(rq, keys) ==
    IF keys = <<>> THEN <<>>
    ELSE LET found == recovery_get(rq, Head(keys))
         IN (IF is_some(found) THEN <<unwrap(found)>> ELSE <<>>)
            \o Lookup(rq, Tail(keys))

\* Ackable::nack for SendQueue: the packets to send again.
nack(q, packet) ==
    IF ~packet.nack THEN <<>>
    ELSE Lookup(q.ack, VisitedAll(packet.records))

(***************************************************************************)
(* The peer: the datagrams the network can hand to the receive thread, in  *)
(* any order and any number of times.                                      *)
(***************************************************************************)
Addresses == {"10.0.0.1:19132"}

InDatagram(id, seq, frames, records) ==
    [id |-> id, seq |-> seq, frames |-> frames, records |-> records]

OrderedFrame(index) ==
    Frame("ReliableOrd", Some(index), None, Some(index), Some(0), None,
          <<ID_GAME_PACKET, index>>)

\* The compound the peer sends: its id and the bodies of its fragments.
Compound ==
    [id |-> 7, bodies |-> <<<<ID_GAME_PACKET, 30>>, <<31>>, <<32>>>>]

CompoundId == Compound.id

CompoundSize == Len(Compound.bodies)

FragmentBody(index) == Compound.bodies[index + 1]

FragmentFrame(index) ==
    Frame("Reliable", Some(10 + index), None, None, None,
          Some(FragmentInfo(CompoundSize, CompoundId, index)), FragmentBody(index))

\* The buffer the peer split into the compound.
CompoundBuffer == FragmentBody(0) \o FragmentBody(1) \o FragmentBody(2)

\* The frame packet the peer sent under each sequence number: three ordered
\* user payloads on channel 0, the three fragments of one compound, a packet
\* of two frames (a user payload and a Connection Request), and a New
\* Incoming Connection.
PeerFrames(seq) ==
    CASE seq \in 0..2 -> <<OrderedFrame(seq)>>
      [] seq \in 3..5 -> <<FragmentFrame(seq - 3)>>
      [] seq = 6 -> <<UnreliableFrame(<<ID_GAME_PACKET, 60>>),
                      UnreliableFrame(<<ID_CONNECTION_REQUEST>>)>>
      [] OTHER -> <<UnreliableFrame(<<ID_NEW_INCOMING_CONNECTION>>)>>

PeerSequences == 0..7

PeerFramePacket(seq) == InDatagram(ID_FRAME_PACKET, seq, PeerFrames(seq), <<>>)

PeerDatagrams ==
    {InDatagram(ID_OPEN_CONNECTION_REQUEST_2, 0, <<>>, <<>>),
     InDatagram(ID_ACK, 0, <<>>, <<Range(1, 2)>>)}
    \cup {PeerFramePacket(seq) : seq \in PeerSequences}

\* What the application sends.
Streams == {<<ID_GAME_PACKET, 90>>}

(***************************************************************************)
(* State.                                                                  *)
(***************************************************************************)
VARIABLES
    connections,  \* RakNetServer.connections: address -> Connection
    callback,     \* history: the invocations of the user callback, in order
    recv_log,     \* history: the frame packets given to handle_frames, in order
    wire,         \* the datagrams the last step of the server wrote with send_to
    idle,         \* address -> sender iterations since its last inbound datagram
    threads,      \* the Mutex of the peer table and where each thread stands
    queue,        \* a SendQueue
    socket,       \* history: the datagrams the SendQueue wrote with send_to
    returned      \* what the last call on the SendQueue returned

connVars == <<connections, callback, recv_log, wire, idle, threads>>

queueVars == <<queue, socket, returned>>

vars == <<connections, callback, recv_log, wire, idle, threads, queue, socket, returned>>

\* What a call returned: the Result of insert, the Vec of nack.
Returned(result, resend_queue) == [result |-> result, resend_queue |-> resend_queue]

\* The threads that use the peer table: the two threads of
\* RakNetServer::start and a caller of RakNetServer::send_stream.
Threads == {"recv_thread", "sender_thread", "send_stream"}

\* Every thread before its lock(): the Mutex is free, nothing is read yet.
InitThreads ==
    [mutex |-> "free",
     pc |-> [t \in Threads |-> "start"],
     buf |-> None]

InitConnections ==
    /\ connections = <<>>
    /\ callback = <<>>
    /\ recv_log = <<>>
    /\ wire = <<>>
    /\ idle = <<>>
    /\ threads = InitThreads

InitQueue(start) ==
    /\ queue = NewSendQueue(QueueMtu, QueueMaxTries, start)
    /\ socket = <<>>
    /\ returned = Returned("Ok", <<>>)

Init == InitConnections /\ InitQueue(0)

\* RecvThread with the lookup of the peer table forgotten: every datagram is
\* handed to a new Connection, which replaces the one of the table.
RecvThread_replaces(remote, datagram) ==
    LET client == NewConnection(remote)
    IN \E x \in {recv([c |-> client, cb |-> callback, ok |-> TRUE], datagram)} :
          /\ x.ok
          /\ Len(x.c.send_queue) <= MaxSendQueue
          /\ connections' = [a \in DOMAIN connections \cup {remote} |->
                                IF a = remote THEN x.c ELSE connections[a]]
          /\ callback' = x.cb
          /\ recv_log' = recv_log
          /\ wire' = <<>>
          /\ idle' = [a \in DOMAIN connections \cup {remote} |->
                         IF a = remote THEN 0 ELSE idle[a]]
          /\ UNCHANGED <<threads, queueVars>>

\* One iteration of the receive thread of RakNetServer::start: the connection
\* is created on the first datagram of an address, then Connection::recv runs.
RecvThread(remote, datagram) ==
    LET client == IF remote \in DOMAIN connections THEN connections[remote]
                  ELSE NewConnection(remote)
        framed == ~is_disconnected(client.state) /\ datagram.id = ID_FRAME_PACKET
    IN \E x \in {recv([c |-> client, cb |-> callback, ok |-> TRUE], datagram)} :
          /\ x.ok
          /\ Len(x.c.send_queue) <= MaxSendQueue
          /\ connections' = [a \in DOMAIN connections \cup {remote} |->
                                IF a = remote THEN x.c ELSE connections[a]]
          /\ callback' = x.cb
          /\ recv_log' = IF framed
                         THEN Append(recv_log, [address |-> remote, seq |-> datagram.seq])
                         ELSE recv_log
          /\ wire' = <<>>
          /\ idle' = [a \in DOMAIN connections \cup {remote} |->
                         IF a = remote THEN 0 ELSE idle[a]]
          /\ UNCHANGED <<threads, queueVars>>

\* RakNetServer::send_stream.
SendStream(address, stream, instant) ==
    /\ address \in DOMAIN connections
    /\ \E c \in {send(connections[address], stream, instant)} :
          /\ Len(c.send_queue) <= MaxSendQueue
          /\ Len(c.send_queue_large) <= MaxSendQueueLarge
          /\ connections' = [connections EXCEPT ![address] = c]
    /\ wire' = <<>>
    /\ UNCHANGED <<callback, recv_log, idle, threads>>
    /\ UNCHANGED queueVars

Next ==
    \/ \E remote \in Addresses, datagram \in PeerDatagrams : RecvThread(remote, datagram)
    \/ \E address \in Addresses, stream \in Streams, instant \in BOOLEAN :
          SendStream(address, stream, instant)

\* The receive thread and the application.  The sender thread is left to
\* SpecTick: it changes no connection of the table (see SenderThread).
Spec == Init /\ [][Next]_vars

\* What one iteration of the sender thread writes for one client: the
\* send_queue of its clone, in order.
Outbound(address, client) ==
    [i \in 1..Len(client.send_queue) |->
        [address |-> address, datagram |-> client.send_queue[i]]]

RECURSIVE TickWrites(_, _)
\* The writes of one iteration over the clients of todo, which are visited in
\* the order of the map's iterator.
TickWrites(clients, todo) ==
    IF todo = {} THEN <<>>
    ELSE LET addr == CHOOSE a \in todo : TRUE
         IN Outbound(addr, clients[addr]) \o TickWrites(clients, todo \ {addr})

\* The sender thread with the test of the state taken from the wrong variant:
\* a Disconnected client is removed and an Offline one is kept.
SenderThread_evicts_disconnected ==
    LET clients == connections
        kept == {a \in DOMAIN clients : clients[a].state # "Disconnected"}
    IN /\ \A a \in DOMAIN idle : idle[a] <= InactivityTicks
       /\ connections' = [a \in kept |-> connections[a]]
       /\ wire' = TickWrites(clients, kept)
       /\ idle' = [a \in kept |-> idle[a] + 1]
       /\ UNCHANGED <<callback, recv_log, threads>>
       /\ UNCHANGED queueVars

\* One iteration of the sender thread of RakNetServer::start, 50 ms after the
\* last: an Offline client is removed from the table; do_tick does nothing;
\* the send_queue of the client's clone is written and the clone's queue is
\* cleared, so the connection in the table keeps its send_queue.
SenderThread ==
    LET clients == connections
        kept == {a \in DOMAIN clients : clients[a].state # "Offline"}
    IN /\ \A a \in DOMAIN idle : idle[a] <= InactivityTicks
       /\ connections' = [a \in kept |-> connections[a]]
       /\ wire' = TickWrites(clients, kept)
       /\ idle' = [a \in kept |-> idle[a] + 1]
       /\ UNCHANGED <<callback, recv_log, threads>>
       /\ UNCHANGED queueVars

\* The datagrams of the peer in the specification with the sender thread.
TickDatagrams ==
    {InDatagram(ID_OPEN_CONNECTION_REQUEST_2, 0, <<>>, <<>>),
     InDatagram(ID_ACK, 0, <<>>, <<Range(1, 2)>>),
     PeerFramePacket(0), PeerFramePacket(1)}

\* The application gives connections up only while the receive thread has
\* handled no more frame packets than this.
MaxLogAtOffline == 1

\* The application gives a connection up: the peer table and the state of a
\* Connection are public fields, and no code of the library assigns Offline.
MarkOffline(address) ==
    /\ address \in DOMAIN connections
    /\ Len(recv_log) <= MaxLogAtOffline
    /\ connections[address].state # "Offline"
    /\ connections' = [connections EXCEPT ![address].state = "Offline"]
    /\ wire' = <<>>
    /\ UNCHANGED <<callback, recv_log, idle, threads>>
    /\ UNCHANGED queueVars

NextTick ==
    \/ \E remote \in Addresses, datagram \in TickDatagrams : RecvThread(remote, datagram)
    \/ \E address \in Addresses, stream \in Streams, instant \in BOOLEAN :
          SendStream(address, stream, instant)
    \/ SenderThread

\* The server: the receive thread, the application and the sender thread.
SpecTick == Init /\ [][NextTick]_vars

\* The datagrams of the peer in the specification with evictions.
EvictDatagrams ==
    {InDatagram(ID_OPEN_CONNECTION_REQUEST_2, 0, <<>>, <<>>), PeerFramePacket(0)}

NextEvict ==
    \/ \E remote \in Addresses, datagram \in EvictDatagrams : RecvThread(remote, datagram)
    \/ SenderThread
    \/ \E address \in Addresses : MarkOffline(address)

\* The server with an application that gives connections up: the receive
\* thread, the sender thread and the application's assignment of Offline.
SpecEvict == Init /\ [][NextEvict]_vars

\* The sequence_index of the sequenced frames the peer sends on channel 0,
\* by the sequence number of the frame packet of each.
SequenceIndices == <<5, 3, 6>>

SequencedFrame(index) ==
    Frame("UnreliableSeq", None, Some(index), Some(0), Some(0), None,
          <<ID_GAME_PACKET, index>>)

\* The datagrams of a peer that sends sequenced frames.
SequencedDatagrams ==
    {InDatagram(ID_OPEN_CONNECTION_REQUEST_2, 0, <<>>, <<>>)}
    \cup {InDatagram(ID_FRAME_PACKET, i - 1, <<SequencedFrame(SequenceIndices[i])>>, <<>>) :
             i \in 1..Len(SequenceIndices)}

NextSequenced ==
    \/ \E remote \in Addresses, datagram \in SequencedDatagrams : RecvThread(remote, datagram)
    \/ \E address \in Addresses, stream \in Streams, instant \in BOOLEAN :
          SendStream(address, stream, instant)

\* The receive thread and the application, with a peer that sends sequenced
\* frames.
SpecSequenced == Init /\ [][NextSequenced]_vars

(***************************************************************************)
(* The threads at the grain of the Mutex of the peer table: each thread    *)
(* takes the lock, works on the table in steps, and gives the lock back    *)
(* when its guard goes out of scope.                                       *)
(***************************************************************************)
\* Mutex::lock by thread t: it returns when no thread holds the lock.
lock(t, to) ==
    /\ threads.pc[t] = "start"
    /\ threads.mutex = "free"
    /\ threads' = [threads EXCEPT !.mutex = t, !.pc[t] = to]

\* recv_from of the receive thread: a datagram is read into buf; the thread
\* then waits for the lock.
RecvFrom(remote, datagram) ==
    /\ threads.pc["recv_thread"] = "start"
    /\ threads.buf = None
    /\ threads' = [threads EXCEPT !.buf = Some([remote |-> remote, datagram |-> datagram])]
    /\ UNCHANGED <<connections, callback, recv_log, wire, idle>>
    /\ UNCHANGED queueVars

\* clients_recv.lock() of the receive thread, taken without waiting for the
\* thread that holds it.
RecvLock_without_waiting ==
    /\ threads.pc["recv_thread"] = "start"
    /\ threads.buf # None
    /\ threads' = [threads EXCEPT !.mutex = "recv_thread", !.pc["recv_thread"] = "lookup"]
    /\ UNCHANGED <<connections, callback, recv_log, wire, idle>>
    /\ UNCHANGED queueVars

\* clients_recv.lock() of the receive thread.
RecvLock ==
    /\ threads.buf # None
    /\ lock("recv_thread", "lookup")
    /\ UNCHANGED <<connections, callback, recv_log, wire, idle>>
    /\ UNCHANGED queueVars

\* The lookup of the receive thread: the connection is created if the table
\* does not hold the address.
RecvLookup ==
    LET remote == unwrap(threads.buf).remote
    IN /\ threads.pc["recv_thread"] = "lookup"
       /\ connections' = [a \in DOMAIN connections \cup {remote} |->
                             IF a \in DOMAIN connections THEN connections[a]
                             ELSE NewConnection(remote)]
       /\ idle' = [a \in DOMAIN connections \cup {remote} |->
                      IF a \in DOMAIN connections THEN idle[a] ELSE 0]
       /\ threads' = [threads EXCEPT !.pc["recv_thread"] = "recv"]
       /\ UNCHANGED <<callback, recv_log, wire>>
       /\ UNCHANGED queueVars

\* get_mut and client.recv of the receive thread; the guard of the lock is
\* dropped at the end of the iteration.  A table without the address makes
\* the thread go on to the next datagram.
RecvHandle ==
    LET remote == unwrap(threads.buf).remote
        datagram == unwrap(threads.buf).datagram
        released == [threads EXCEPT !.mutex = IF @ = "recv_thread" THEN "free" ELSE @,
                                    !.pc["recv_thread"] = "start",
                                    !.buf = None]
    IN /\ threads.pc["recv_thread"] = "recv"
       /\ IF remote \notin DOMAIN connections
          THEN /\ threads' = released
               /\ UNCHANGED <<connections, callback, recv_log, wire, idle>>
          ELSE LET client == connections[remote]
                   framed == ~is_disconnected(client.state) /\ datagram.id = ID_FRAME_PACKET
               IN \E x \in {recv([c |-> client, cb |-> callback, ok |-> TRUE], datagram)} :
                     /\ x.ok
                     /\ Len(x.c.send_queue) <= MaxSendQueue
                     /\ connections' = [connections EXCEPT ![remote] = x.c]
                     /\ callback' = x.cb
                     /\ recv_log' = IF framed
                                    THEN Append(recv_log, [address |-> remote, seq |-> datagram.seq])
                                    ELSE recv_log
                     /\ wire' = <<>>
                     /\ idle' = [idle EXCEPT ![remote] = 0]
                     /\ threads' = released
       /\ UNCHANGED queueVars

\* clients_send.lock() of the sender thread, after its sleep.
SenderLock ==
    /\ lock("sender_thread", "iterate")
    /\ UNCHANGED <<connections, callback, recv_log, wire, idle>>
    /\ UNCHANGED queueVars

\* The loop of the sender thread over the clone of the table.
SenderIterate ==
    LET clients == connections
        kept == {a \in DOMAIN clients : clients[a].state # "Offline"}
    IN /\ threads.pc["sender_thread"] = "iterate"
       /\ \A a \in DOMAIN idle : idle[a] <= InactivityTicks
       /\ connections' = [a \in kept |-> connections[a]]
       /\ wire' = TickWrites(clients, kept)
       /\ idle' = [a \in kept |-> idle[a] + 1]
       /\ threads' = [threads EXCEPT !.pc["sender_thread"] = "drop"]
       /\ UNCHANGED <<callback, recv_log>>
       /\ UNCHANGED queueVars

\* drop(clients) of the sender thread.
SenderDrop ==
    /\ threads.pc["sender_thread"] = "drop"
    /\ threads' = [threads EXCEPT !.mutex = IF @ = "sender_thread" THEN "free" ELSE @,
                                  !.pc["sender_thread"] = "start"]
    /\ UNCHANGED <<connections, callback, recv_log, wire, idle>>
    /\ UNCHANGED queueVars

\* self.connections.lock() of send_stream.
SendStreamLock ==
    /\ lock("send_stream", "send")
    /\ UNCHANGED <<connections, callback, recv_log, wire, idle>>
    /\ UNCHANGED queueVars

\* get_mut and c.send of send_stream; the guard of the lock is dropped at
\* the end of the match.
SendStreamSend(address, stream, instant) ==
    /\ threads.pc["send_stream"] = "send"
    /\ IF address \in DOMAIN connections
       THEN \E c \in {send(connections[address], stream, instant)} :
               /\ Len(c.send_queue) <= MaxSendQueue
               /\ Len(c.send_queue_large) <= MaxSendQueueLarge
               /\ connections' = [connections EXCEPT ![address] = c]
       ELSE UNCHANGED connections
    /\ threads' = [threads EXCEPT !.mutex = IF @ = "send_stream" THEN "free" ELSE @,
                                  !.pc["send_stream"] = "start"]
    /\ wire' = <<>>
    /\ UNCHANGED <<callback, recv_log, idle>>
    /\ UNCHANGED queueVars

NextLock ==
    \/ \E remote \in Addresses, datagram \in TickDatagrams : RecvFrom(remote, datagram)
    \/ RecvLock
    \/ RecvLookup
    \/ RecvHandle
    \/ SenderLock
    \/ SenderIterate
    \/ SenderDrop
    \/ SendStreamLock
    \/ \E address \in Addresses, stream \in Streams, instant \in BOOLEAN :
          SendStreamSend(address, stream, instant)

\* The server with its three threads interleaved step by step.
SpecLock == Init /\ [][NextLock]_vars

(***************************************************************************)
(* The SendQueue on its own: the calls its owner makes, in any order.      *)
(***************************************************************************)
\* Payload lengths: one that fits a frame even with the header overhead
\* taken off the MTU, one above the MTU plus the overhead, and one that would
\* need more than 65535 fragments.
PayloadLengths ==
    {QueueMtu - RAKNET_HEADER_FRAME_OVERHEAD - 1,
     QueueMtu + RAKNET_HEADER_FRAME_OVERHEAD + 1,
     65536 * (QueueMtu - RAKNET_HEADER_FRAME_OVERHEAD)}

RequestedReliabilities == {"Unreliable", "UnreliableSeq", "Reliable", "ReliableOrd"}

Channels == {None, Some(1)}

AckPacket(is_nack, records) == [nack |-> is_nack, records |-> records]

AckPackets ==
    {AckPacket(b, r) : b \in BOOLEAN, r \in {<<Single(1)>>, <<Range(1, 2)>>}}

WithinBounds(y) ==
    /\ Advanced(y.q.send_seq) + Len(y.q.ready) <= MaxSends
    /\ Len(y.out) <= MaxSocket

\* The queue and the socket at a call, fail being the calls of send_to that
\* will return an error during it.
Call(fail) == [q |-> queue, out |-> socket, tried |-> 0, fail |-> fail]

\* A call of SendQueue::insert.
Insert(length, reliability, immediate, channel) ==
    \E r \in {insert(Call({}), length, reliability, immediate, channel)} :
       /\ WithinBounds(r.y)
       /\ queue' = r.y.q
       /\ socket' = r.y.out
       /\ returned' = Returned(r.result, <<>>)
       /\ UNCHANGED connVars

\* A call of SendQueue::update, on a tick.
Update ==
    \E stale \in SUBSET DOMAIN queue.ack :
       \E y \in {update(Call({}), stale)} :
          /\ WithinBounds(y)
          /\ queue' = y.q
          /\ socket' = y.out
          /\ returned' = Returned("Ok", <<>>)
          /\ UNCHANGED connVars

\* A call of SendQueue::ack, on an inbound ACK or NACK.
Ack(packet) ==
    /\ queue' = ack(queue, packet)
    /\ returned' = Returned("Ok", <<>>)
    /\ UNCHANGED <<socket, connVars>>

\* A call of SendQueue::nack, on an inbound ACK or NACK.
Nack(packet) ==
    /\ returned' = Returned("Ok", nack(queue, packet))
    /\ UNCHANGED <<queue, socket, connVars>>

NextSendQueue ==
    \/ \E length \in PayloadLengths, reliability \in RequestedReliabilities,
          immediate \in BOOLEAN, channel \in Channels :
          Insert(length, reliability, immediate, channel)
    \/ Update
    \/ \E packet \in AckPackets : Ack(packet)
    \/ \E packet \in AckPackets : Nack(packet)

SpecSendQueue == Init /\ [][NextSendQueue]_vars

\* The same queue, observed from the point where its sequence counter has
\* reached 2^24 - 1 (after that many unreliable sends).
InitWrap == InitConnections /\ InitQueue(WrapStart)

SpecSequenceWrap == InitWrap /\ [][NextSendQueue]_vars

(***************************************************************************)
(* Writes that fail.  The SendQueue of send.rs and the server of server.rs *)
(* are not linked: a run works with the one or with the other.             *)
(***************************************************************************)
\* A call of the queue or an iteration of the sender thread has at most this
\* many first writes that can fail.
MaxFailing == 1

Failures == SUBSET (1..MaxFailing)

\* What is sent on the socket whose writes can fail: a payload that fits one
\* frame and one that is split, reliable and ordered.
FailingLengths ==
    {QueueMtu - RAKNET_HEADER_FRAME_OVERHEAD - 1, QueueMtu + RAKNET_HEADER_FRAME_OVERHEAD + 1}

FailingReliabilities == {"ReliableOrd"}

QueueInUse == queue # NewSendQueue(QueueMtu, QueueMaxTries, 0) \/ socket # <<>>

\* A call of SendQueue::insert during which writes fail.
InsertFailing(length, reliability, immediate, channel, fail) ==
    /\ connections = <<>>
    /\ \E r \in {insert(Call(fail), length, reliability, immediate, channel)} :
          /\ WithinBounds(r.y)
          /\ queue' = r.y.q
          /\ socket' = r.y.out
          /\ returned' = Returned(r.result, <<>>)
          /\ UNCHANGED connVars

\* A call of SendQueue::update during which writes fail.
UpdateFailing(fail) ==
    /\ connections = <<>>
    /\ \E stale \in SUBSET DOMAIN queue.ack :
          \E y \in {update(Call(fail), stale)} :
             /\ WithinBounds(y)
             /\ queue' = y.q
             /\ socket' = y.out
             /\ returned' = Returned("Ok", <<>>)
             /\ UNCHANGED connVars

\* One iteration of the receive thread of a server that uses no SendQueue.
RecvThreadAlone(remote, datagram) ==
    /\ ~QueueInUse
    /\ RecvThread(remote, datagram)

RECURSIVE WriteQueue(_, _, _, _)
\* The loop of the sender thread over the send_queue of a client's clone,
\* tried writes already made: an error of send_to makes it go on with the
\* next datagram.
WriteQueue(address, packets, tried, fail) ==
    IF packets = <<>> THEN <<>>
    ELSE (IF (tried + 1) \in fail THEN <<>>
          ELSE <<[address |-> address, datagram |-> Head(packets)]>>)
         \o WriteQueue(address, Tail(packets), tried + 1, fail)

RECURSIVE TickWritesFailing(_, _, _)
\* The writes of one iteration over the clients of todo that succeed.
TickWritesFailing(clients, todo, fail) ==
    IF todo = {} THEN <<>>
    ELSE LET addr == CHOOSE a \in todo : TRUE
         IN WriteQueue(addr, clients[addr].send_queue, 0, fail)
            \o TickWritesFailing(clients, todo \ {addr}, fail)

\* One iteration of the sender thread during which writes fail.
SenderThreadFailing(fail) ==
    LET clients == connections
        kept == {a \in DOMAIN clients : clients[a].state # "Offline"}
    IN /\ ~QueueInUse
       /\ \A a \in DOMAIN idle : idle[a] <= InactivityTicks
       /\ connections' = [a \in kept |-> connections[a]]
       /\ wire' = TickWritesFailing(clients, kept, fail)
       /\ idle' = [a \in kept |-> idle[a] + 1]
       /\ UNCHANGED <<callback, recv_log, threads>>
       /\ UNCHANGED queueVars

NextFailing ==
    \/ \E length \in FailingLengths, reliability \in FailingReliabilities,
          immediate \in BOOLEAN, fail \in Failures :
          InsertFailing(length, reliability, immediate, None, fail)
    \/ \E fail \in Failures : UpdateFailing(fail)
    \/ \E remote \in Addresses, datagram \in EvictDatagrams :
          RecvThreadAlone(remote, datagram)
    \/ \E fail \in Failures : SenderThreadFailing(fail)

\* The SendQueue, or the receive and sender threads, on a socket whose
\* writes can fail.
SpecFailing == Init /\ [][NextFailing]_vars

(***************************************************************************)
(* The codec of frame/mod.rs on bytes: parse encodes, compose decodes.     *)
(* A buffer is a sequence of bytes; its positions count from 0.            *)
(***************************************************************************)
\* write_u16, write_u24 and write_i32, big-endian.
U16(n) == <<(n \div 256) % 256, n % 256>>

U24(n) == <<(n \div 65536) % 256, (n \div 256) % 256, n % 256>>

I32(n) == <<(n \div 16777216) % 256, (n \div 65536) % 256, (n \div 256) % 256, n % 256>>

RECURSIVE BigEndian(_)
\* The number a big-endian read makes of its bytes.
BigEndian(bytes) ==
    IF bytes = <<>> THEN 0
    ELSE BigEndian(SubSeq(bytes, 1, Len(bytes) - 1)) * 256 + Last(bytes)

\* The bytes of source from position from up to position to, which is left out.
Bytes(source, from, to) == SubSeq(source, from + 1, to)

\* Reliability::to_byte and Reliability::from_bit, which keeps the top three
\* bits of the flags.
to_byte(r) ==
    CASE r = "Unreliable" -> 0
      [] r = "UnreliableSeq" -> 1
      [] r = "Reliable" -> 2
      [] r = "ReliableOrd" -> 3
      [] r = "ReliableSeq" -> 4
      [] r = "UnreliableAck" -> 5
      [] r = "ReliableAck" -> 6
      [] OTHER -> 7

from_bit(flags) == CHOOSE r \in Reliabilities : to_byte(r) = flags \div 32

\* Frame::parse: flags, the length of the body in bits, the indices the
\* frame has, the fragment info when its size is positive, the body.
Frame_parse(frame) ==
    LET split == IF is_some(frame.fragment_info)
                 THEN unwrap(frame.fragment_info).fragment_size > 0 ELSE FALSE
        flags == ((to_byte(frame.reliability) * 32) % 256) + (IF split THEN 16 ELSE 0)
        info == unwrap(frame.fragment_info)
    IN <<flags>> \o U16(((Len(frame.body) % 65536) * 8) % 65536)
       \o (IF is_some(frame.reliable_index) THEN U24(unwrap(frame.reliable_index)) ELSE <<>>)
       \o (IF is_some(frame.sequence_index) THEN U24(unwrap(frame.sequence_index)) ELSE <<>>)
       \o (IF is_some(frame.order_index)
           THEN U24(unwrap(frame.order_index)) \o <<unwrap(frame.order_channel)>> ELSE <<>>)
       \o (IF split
           THEN I32(info.fragment_size) \o U16(info.fragment_id) \o I32(info.fragment_index)
           ELSE <<>>)
       \o frame.body

\* What a call of compose comes to: it returns a value, or it panics (an
\* unwrap of a read past the end, a slice whose start is past its end), or
\* it never returns.
Composed(outcome, value) == [outcome |-> outcome, value |-> value]

\* Frame::compose on the bytes from the start of a frame to the end of the
\* buffer: the body is the slice source[offset..size], offset being the end
\* of the header and size the length of the body.
Frame_compose(source) ==
    LET flags == source[1]
        reliability == from_bit(flags)
        fragmented == (flags \div 16) % 2 = 1
        bit_length == BigEndian(Bytes(source, 1, 3))
        p1 == 3 + (IF is_reliable(reliability) THEN 3 ELSE 0)
        p2 == p1 + (IF is_sequenced(reliability) THEN 3 ELSE 0)
        p3 == p2 + (IF is_ordered(reliability) THEN 4 ELSE 0)
        offset == p3 + (IF fragmented THEN 10 ELSE 0)
        size == bit_length \div 8
        frame == Frame(reliability,
                   IF is_reliable(reliability) THEN Some(BigEndian(Bytes(source, 3, p1))) ELSE None,
                   IF is_sequenced(reliability) THEN Some(BigEndian(Bytes(source, p1, p2))) ELSE None,
                   IF is_ordered(reliability) THEN Some(BigEndian(Bytes(source, p2, p2 + 3))) ELSE None,
                   IF is_ordered(reliability) THEN Some(source[p3]) ELSE None,
                   IF fragmented
                   THEN Some(FragmentInfo(BigEndian(Bytes(source, p3, p3 + 4)),
                                          BigEndian(Bytes(source, p3 + 4, p3 + 6)),
                                          BigEndian(Bytes(source, p3 + 6, p3 + 10))))
                   ELSE None,
                   <<>>)
    IN IF Len(source) < 3 \/ Len(source) < offset THEN Composed("panics", <<>>)
       ELSE IF Len(source) > size
       THEN IF offset > size THEN Composed("panics", <<>>)
            ELSE Composed("returns", [frame EXCEPT !.body = Bytes(source, offset, size)])
       ELSE Composed("returns", frame)

\* FramePacket::parse: the id of a frame packet, the sequence, the frames.
RECURSIVE Frames_parse(_)
Frames_parse(frames) ==
    IF frames = <<>> THEN <<>> ELSE Frame_parse(Head(frames)) \o Frames_parse(Tail(frames))

FramePacket_parse(packet) == <<ID_FRAME_PACKET>> \o U24(packet.seq) \o Frames_parse(packet.frames)

RECURSIVE FramePacket_compose_loop(_, _, _, _)
\* The loop of FramePacket::compose at a position of the cursor, been being
\* the positions it has stood at: a frame is composed from the bytes at
\* the position, and the cursor is set to the length of that frame encoded
\* again (not advanced by it) unless that length added to the position
\* reaches the end.
FramePacket_compose_loop(source, position, frames, been) ==
    IF position >= Len(source) THEN Composed("returns", frames)
    ELSE LET frm == Frame_compose(Bytes(source, position, Len(source)))
             length == Len(Frame_parse(frm.value))
         IN IF frm.outcome # "returns" THEN Composed(frm.outcome, <<>>)
            ELSE IF length + position >= Len(source)
            THEN Composed("returns", Append(frames, frm.value))
            ELSE IF length \in been THEN Composed("never returns", <<>>)
            ELSE FramePacket_compose_loop(source, length, Append(frames, frm.value),
                                          been \cup {length})

\* FramePacket::compose: the sequence is read from the first three bytes of
\* the source, then the frames.
FramePacket_compose(source) ==
    IF Len(source) < 3 THEN Composed("panics", <<>>)
    ELSE LET frames == FramePacket_compose_loop(source, 3, <<>>, {3})
         IN IF frames.outcome # "returns" THEN frames
            ELSE Composed("returns", [seq |-> BigEndian(Bytes(source, 0, 3)),
                                      frames |-> frames.value])

\* The frame packets the encoder side builds: the sequences, and the frames
\* a packet is made of, whose indices are the ones their reliability asks for.
MaxFrames == 2

CodecSequences == {0, 1, 8421504, SequenceModulus - 1}

CodecBodies == {<<ID_GAME_PACKET>>, <<ID_GAME_PACKET, 1, 2, 3, 4, 5, 6, 7>>}

CodecFrames ==
    {Frame(r,
           IF is_reliable(r) THEN Some(1) ELSE None,
           IF is_sequenced(r) THEN Some(2) ELSE None,
           IF is_ordered(r) THEN Some(3) ELSE None,
           IF is_ordered(r) THEN Some(0) ELSE None,
           info, body) :
        r \in {"Unreliable", "UnreliableSeq", "Reliable", "ReliableOrd"},
        info \in {None, Some(FragmentInfo(2, 1, 0))},
        body \in CodecBodies}

CodecPackets ==
    {[seq |-> seq, frames |-> frames] :
        seq \in CodecSequences,
        frames \in UNION {[1..n -> CodecFrames] : n \in 1..MaxFrames}}

\* A call of FramePacket::parse on a packet of the encoder side, the one
\* call of a run.
Parse(packet) ==
    /\ "call" \notin DOMAIN returned
    /\ returned' = [call |-> "parse", packet |-> packet, buffer |-> FramePacket_parse(packet)]
    /\ UNCHANGED <<queue, socket, connVars>>

\* A call of FramePacket::compose on the buffer parse has returned.
Compose ==
    /\ "call" \in DOMAIN returned
    /\ returned.call = "parse"
    /\ returned' = [call |-> "compose", packet |-> returned.packet,
                    composed |-> FramePacket_compose(returned.buffer)]
    /\ UNCHANGED <<queue, socket, connVars>>

NextCodec ==
    \/ \E packet \in CodecPackets : Parse(packet)
    \/ Compose

\* The codec on its own: packets are encoded and the bytes decoded.
SpecCodec == Init /\ [][NextCodec]_vars

(***************************************************************************)
(* Connection::fragment on its own, as the application can call it.        *)
(***************************************************************************)
RECURSIVE fragment_loop(_, _, _, _)
\* The loop of Connection::fragment in a call that returns, offset bytes
\* being left: a stream longer than mtu_size gives the slice of its first
\* mtu_size bytes and takes mtu_size off the offset, a shorter one gives
\* the whole stream and takes its length off.
fragment_loop(length, mtu_size, offset, index) ==
    IF offset = 0 THEN <<>>
    ELSE LET longer == length > mtu_size
             slice == IF longer THEN Slice(0, mtu_size) ELSE Slice(0, length)
             left == IF longer THEN offset - mtu_size ELSE offset - length
         IN <<[index |-> index, body |-> slice]>>
            \o fragment_loop(length, mtu_size, left, index + 1)

\* The longest stream given to Connection::fragment.
MaxStream == 9

\* The values fragment_id has at a call: a new connection's, one after a
\* call, and the one before the test against 65535 holds.
FragmentIds == {0, 1, 65534}

\* A call of Connection::fragment, the one call of a run, on a connection
\* with this mtu_size and fragment_id and a stream of this length.  A call
\* whose offset never reaches 0 does not return: the subtraction on the
\* usize panics where overflow is checked and wraps where it is not.
Fragment(mtu_size, length, fragment_id) ==
    LET c == [NewConnection(CHOOSE a \in Addresses : TRUE) EXCEPT
                 !.mtu_size = mtu_size, !.fragment_id = fragment_id]
        returns == fragment_returns(c, length)
    IN /\ "call" \notin DOMAIN returned
       /\ returned' =
             [call |-> "fragment", mtu_size |-> mtu_size, length |-> length,
              fragment_id |-> fragment_id,
              outcome |-> IF returns THEN "returns" ELSE "does not return",
              fragments |-> IF returns THEN fragment_loop(length, mtu_size, length, 0)
                            ELSE <<>>,
              connection |-> IF returns THEN fragment(c, length) ELSE c]
       /\ UNCHANGED <<queue, socket, connVars>>

NextFragment ==
    \E mtu_size \in 0..PeerMtu, length \in 0..MaxStream, fragment_id \in FragmentIds :
       Fragment(mtu_size, length, fragment_id)

SpecFragment == Init /\ [][NextFragment]_vars

(***************************************************************************)
(* Properties of the receive pipeline.                                     *)
(***************************************************************************)
\* The sequences of the frame packets of address a handled so far.
ReceivedSeqs(a) ==
    {recv_log[i].seq : i \in {j \in 1..Len(recv_log) : recv_log[j].address = a}}

\* How many times the frame packet with sequence seq of address a was handled.
Arrivals(a, seq) ==
    Cardinality({i \in 1..Len(recv_log) :
                    recv_log[i].address = a /\ recv_log[i].seq = seq})

\* C1 (dedup): however often a frame packet with the same sequence is injected,
\* the user callback is invoked at most once for each user-payload frame of
\* it: no invocation (same address, same packet sequence, same frame) occurs
\* twice in the callback history.
C1_Dedup ==
    \A i, j \in 1..Len(callback) : callback[i] = callback[j] => i = j

\* C6 (gap detection): when a frame packet with sequence s is handled and s is
\* ahead of the next expected sequence e (one more than the highest sequence
\* handled before, 0 at the start), then afterwards s is in the AckQueue and
\* every sequence e..s-1 is in the NackQueue.
C6_GapDetection ==
    [][recv_log' # recv_log =>
        LET a == Last(recv_log').address
            s == Last(recv_log').seq
            e == IF ReceivedSeqs(a) = {} THEN 0 ELSE Max(ReceivedSeqs(a)) + 1
        IN e < s => /\ s \in connections'[a].ack
                    /\ e..(s - 1) \subseteq connections'[a].nack]_vars

\* The NACK datagrams a step appends to the send_queue of address a.
NewNacks(a) ==
    LET old == IF a \in DOMAIN connections THEN Len(connections[a].send_queue) ELSE 0
        q == connections'[a].send_queue
    IN {q[i] : i \in {j \in (old + 1)..Len(q) : q[j].kind = "Nack"}}

\* C7 (NackQueue holds only missing sequences): no sequence is in the AckQueue
\* and the NackQueue of a connection at once, and a sequence that has been
\* received is not negatively acknowledged afterwards.
C7_NackOnlyMissing ==
    [][\A a \in DOMAIN connections' :
          /\ connections'[a].ack \cap connections'[a].nack = {}
          /\ \A d \in NewNacks(a) : d.seqs \cap ReceivedSeqs(a) = {}]_vars

\* The positions of the callback history that hold an ordered payload of
\* address a on channel ch.
OrderedDeliveries(a, ch) ==
    {i \in 1..Len(callback) :
        /\ callback[i].address = a
        /\ callback[i].order_channel = Some(ch)
        /\ is_some(callback[i].order_index)}

\* C8 (order preservation): on every channel the callback sees ordered
\* payloads in ascending order_index, and a payload is delivered only after
\* every smaller order_index of its channel has been delivered.
C8_OrderPreserved ==
    \A a \in Addresses, ch \in {0} :
       \A j \in OrderedDeliveries(a, ch) :
          /\ \A i \in OrderedDeliveries(a, ch) :
                i < j => unwrap(callback[i].order_index) <= unwrap(callback[j].order_index)
          /\ \A k \in 0..(unwrap(callback[j].order_index) - 1) :
                \E i \in OrderedDeliveries(a, ch) :
                   i < j /\ unwrap(callback[i].order_index) = k

\* The fragment indices of the peer's compound whose packets address a has
\* handled, and the callback invocations that hand on the compound.
FragmentsArrived(a) == {seq - 3 : seq \in ReceivedSeqs(a) \cap 3..5}

CompoundDeliveries(a) ==
    {i \in 1..Len(callback) :
        callback[i].address = a /\ callback[i].compound = Some(CompoundId)}

\* No fragment of the compound arrived twice: the fragments arrive as a
\* permutation, or as a part of one.
FragmentsOnce(a) == \A seq \in 3..5 : Arrivals(a, seq) <= 1

\* C9 (fragment reassembly): when the fragments of a compound arrive in any
\* order, each once, the payload is handed on exactly once, as soon as all
\* indices are stored and not before, with the bodies in index order equal to
\* the original buffer; while an index is missing the compound is pending in
\* the store with exactly the indices that arrived, and after the delivery it
\* is no longer in the store.
C9_FragmentReassembly ==
    \A a \in DOMAIN connections :
       FragmentsOnce(a) =>
          LET store == connections[a].fragmented
              arrived == FragmentsArrived(a)
          IN IF arrived = 0..(CompoundSize - 1)
             THEN /\ Cardinality(CompoundDeliveries(a)) = 1
                  /\ \A i \in CompoundDeliveries(a) : callback[i].body = CompoundBuffer
                  /\ CompoundId \notin DOMAIN store
             ELSE /\ CompoundDeliveries(a) = {}
                  /\ arrived # {} => /\ CompoundId \in DOMAIN store
                                     /\ DOMAIN store[CompoundId] = arrived
                  /\ arrived = {} => CompoundId \notin DOMAIN store

\* C9 witness: the three fragments arrived with the last index first and the
\* first index last, and the callback received the original buffer.
C9_Witness ==
    \E a \in DOMAIN connections :
       /\ FragmentsOnce(a)
       /\ FragmentsArrived(a) = 0..(CompoundSize - 1)
       /\ \E i, j \in 1..Len(recv_log) :
             i < j /\ recv_log[i].seq = 5 /\ recv_log[j].seq = 3
       /\ \E i \in CompoundDeliveries(a) : callback[i].body = CompoundBuffer

(***************************************************************************)
(* Properties of the send queue.                                           *)
(***************************************************************************)
\* The sequences an ACK or NACK refers to: a Range includes both endpoints.
Referenced(packet) == RecordSequences(packet.records)

\* The frame packets written to the socket that carry a reliable frame.
ReliableWritten ==
    {socket[i] : i \in {j \in 1..Len(socket) :
        \E f \in 1..Len(socket[j].frames) : is_reliable(socket[j].frames[f].reliability)}}

\* C2 (recovery queue): every entry of the RecoveryQueue is stored under the
\* sequence of its own frame packet and is reliable, and every reliable frame
\* packet that was written and that no ACK of the model refers to is stored.
C2_RecoveryKeyedBySequence ==
    /\ \A k \in DOMAIN queue.ack :
          /\ queue.ack[k].sequence = k
          /\ is_reliable(queue.ack[k].reliability)
    /\ \A w \in ReliableWritten :
          (\A packet \in AckPackets : w.sequence \notin Referenced(packet)) =>
             /\ w.sequence \in DOMAIN queue.ack
             /\ Wire(queue.ack[w.sequence]) = w

\* C3 (inbound ACK): a call of ack with an ACK removes exactly the entries of
\* the sequences it refers to, Range endpoints included, and keeps the others.
C3_AckRemovesReferenced ==
    [][\A packet \in AckPackets :
          (~packet.nack /\ Ack(packet)) =>
             /\ DOMAIN queue'.ack = DOMAIN queue.ack \ Referenced(packet)
             /\ \A k \in DOMAIN queue'.ack : queue'.ack[k] = queue.ack[k]]_vars

\* C4 (inbound NACK): a call of nack with a NACK selects, for every sequence
\* it refers to (Range endpoints included), the stored frame packet exactly
\* once if there is one and nothing otherwise, and leaves the queue, its
\* sequence counter included, as it was.
C4_NackResendsReferenced ==
    [][\A packet \in AckPackets :
          (packet.nack /\ Nack(packet)) =>
             /\ queue' = queue
             /\ \A s \in Referenced(packet) :
                   IF s \in DOMAIN queue.ack
                   THEN Count(returned'.resend_queue, LAMBDA p : p = queue.ack[s]) = 1
                   ELSE TRUE
             /\ Len(returned'.resend_queue)
                   = Cardinality(Referenced(packet) \cap DOMAIN queue.ack)]_vars

\* C5 (sequence numbers): every frame packet the queue builds has a sequence
\* below 2^24, and two writes with one sequence are the same frame packet (a
\* retransmission), never two packets built under the same number.
C5_SequenceWraps ==
    \A i \in 1..Len(socket) :
       /\ socket[i].sequence \in 0..(SequenceModulus - 1)
       /\ \A j \in 1..Len(socket) :
             socket[i].sequence = socket[j].sequence => socket[i] = socket[j]

\* The frames a step of insert emits: in the frame packets it writes, in the
\* ready buffer, and in the compounds it adds to the fragment queue.
EmittedFrames ==
    LET written == {socket'[i] : i \in (Len(socket) + 1)..Len(socket')}
        queued == {queue'.ready[i] : i \in (Len(queue.ready) + 1)..Len(queue'.ready)}
        compounds == DOMAIN queue'.fragment_queue.fragments
                        \ DOMAIN queue.fragment_queue.fragments
    IN UNION {SeqToSet(w.frames) : w \in written} \cup queued
       \cup UNION {SeqToSet(queue'.fragment_queue.fragments[c]) : c \in compounds}

\* The reliability insert is to use: ReliableOrd for a payload longer than the
\* MTU less the header overhead, the requested one otherwise.
EffectiveReliability(length, reliability) ==
    IF length > queue.mtu_size - RAKNET_HEADER_FRAME_OVERHEAD THEN "ReliableOrd"
    ELSE reliability

\* C10 (effective reliability): every frame a call of insert emits carries
\* ReliableOrd when the payload is longer than the MTU less the header
\* overhead, and the requested reliability when it fits.
C10_EffectiveReliability ==
    [][\A length \in PayloadLengths, reliability \in RequestedReliabilities,
          immediate \in BOOLEAN, channel \in Channels :
          Insert(length, reliability, immediate, channel) =>
             \A f \in EmittedFrames :
                f.reliability = EffectiveReliability(length, reliability)]_vars

RECURSIVE FrameBytes(_)
\* The bytes the frames of a frame packet take at least: for each frame its
\* header overhead and its body.
FrameBytes(frames) ==
    IF frames = <<>> THEN 0
    ELSE RAKNET_HEADER_FRAME_OVERHEAD + Head(frames).body.size + FrameBytes(Tail(frames))

NewCompounds ==
    DOMAIN queue'.fragment_queue.fragments \ DOMAIN queue.fragment_queue.fragments

Written == [i \in 1..(Len(socket') - Len(socket)) |-> socket'[Len(socket) + i]]

\* C12 (fragment indices): the fragments of a compound that insert adds carry
\* the compound's id and its size, the indices 0..size-1 in order, the
\* channel's sequence and order counters, the same for all of them, and, when
\* they are reliable, reliable indices that differ pairwise.
C12_FragmentIndices ==
    [][\A c \in NewCompounds :
          LET frames == queue'.fragment_queue.fragments[c]
              first == frames[1]
              counters == queue'.order_channels[unwrap(first.order_channel)]
          IN /\ Len(frames) > 1
             /\ \A i \in 1..Len(frames) :
                   /\ frames[i].fragment_info = Some(FragmentInfo(Len(frames), c, i - 1))
                   /\ frames[i].order_channel = first.order_channel
                   /\ frames[i].sequence_index = Some(counters[1])
                   /\ frames[i].order_index = Some(counters[2])
                   /\ is_reliable(frames[i].reliability) => is_some(frames[i].reliable_index)
                   /\ \A j \in 1..Len(frames) :
                         (is_reliable(frames[i].reliability) /\ i # j) =>
                            frames[i].reliable_index # frames[j].reliable_index]_vars

\* C12 witness: a reliable compound of several fragments is in the fragment queue.
C12_Witness ==
    \E c \in DOMAIN queue.fragment_queue.fragments :
       /\ Len(queue.fragment_queue.fragments[c]) > 1
       /\ is_reliable(queue.fragment_queue.fragments[c][1].reliability)

\* C13 (fragments dispatched): when insert has split a payload and returns Ok,
\* every fragment of the compound is in exactly one position of the frame
\* packets the call wrote, and each of these packets is kept in the
\* RecoveryQueue with its frames.
C13_FragmentsDispatched ==
    [][\A c \in NewCompounds :
          returned'.result = "Ok" =>
             /\ \A i \in 1..Len(queue'.fragment_queue.fragments[c]) :
                   Cardinality({<<w, f>> \in (DOMAIN Written) \X (1..Len(queue'.fragment_queue.fragments[c])) :
                                   /\ f \in DOMAIN Written[w].frames
                                   /\ Written[w].frames[f]
                                         = queue'.fragment_queue.fragments[c][i]}) = 1
             /\ \A w \in DOMAIN Written :
                   \E k \in DOMAIN queue'.ack : Wire(queue'.ack[k]) = Written[w]]_vars

\* The payload length of PayloadLengths that fits one frame.
FitLength == QueueMtu - RAKNET_HEADER_FRAME_OVERHEAD - 1

\* C15 (deferred send): a call of insert with immediate = false and a payload
\* that fits one frame writes nothing and appends one frame with the payload
\* to the ready buffer, whatever the reliability; the next update empties the
\* ready buffer and writes each of its frames in a frame packet of its own,
\* in order, before anything else.
C15_DeferredSend ==
    [][/\ \A reliability \in RequestedReliabilities, channel \in Channels :
             Insert(FitLength, reliability, FALSE, channel) =>
                /\ socket' = socket
                /\ Len(queue'.ready) = Len(queue.ready) + 1
                /\ Last(queue'.ready).body = Slice(0, FitLength)
       /\ Update =>
             /\ queue'.ready = <<>>
             /\ Len(Written) >= Len(queue.ready)
             /\ \A i \in 1..Len(queue.ready) :
                   /\ Len(Written[i].frames) = 1
                   /\ Written[i].frames[1].body = queue.ready[i].body
                   /\ Written[i].frames[1].reliability = queue.ready[i].reliability]_vars

\* How many times a frame packet has been written to the socket.
TimesWritten(w) == Cardinality({i \in 1..Len(socket) : socket[i] = w})

\* C18 (retransmit on timeout): the frame packets an update writes after the
\* ready frames are retransmissions of RecoveryQueue entries, which stay in
\* the queue; and no entry is retransmitted once it has been written
\* max_tries times after its first transmission: by then the connection is
\* Disconnected.
C18_RetransmitOnTimeout ==
    [][Update =>
          \A i \in (Len(queue.ready) + 1)..Len(Written) :
             /\ \E k \in DOMAIN queue.ack : Wire(queue.ack[k]) = Written[i]
             /\ \E k \in DOMAIN queue'.ack : Wire(queue'.ack[k]) = Written[i]
             /\ TimesWritten(Written[i]) <= queue.max_tries]_vars

(***************************************************************************)
(* Properties of the server's threads.                                     *)
(***************************************************************************)
\* C14 (immediate send): a call of send_stream with instant = true writes a
\* frame packet with the payload to the socket before it returns.
C14_ImmediateWritten ==
    [][\A address \in Addresses, stream \in Streams :
          SendStream(address, stream, TRUE) =>
             \E i \in 1..Len(wire') :
                /\ wire'[i].address = address
                /\ wire'[i].datagram.kind = "FramePacket"
                /\ \E f \in 1..Len(wire'[i].datagram.frames) :
                      wire'[i].datagram.frames[f].body = stream]_vars

\* The place of a datagram in the order of a tick: ACK, NACK, frame packets.
TickRank(datagram) ==
    CASE datagram.kind = "Ack" -> 0
      [] datagram.kind = "Nack" -> 1
      [] OTHER -> 2

\* C16 (tick order): in the datagrams one iteration of the sender thread
\* writes for a connection, no ACK comes after a NACK or a frame packet and
\* no NACK after a frame packet.
C16_TickOrder ==
    [][SenderThread =>
          \A i, j \in 1..Len(wire') :
             (/\ i < j
              /\ wire'[i].address = wire'[j].address
              /\ wire'[i].datagram.kind \in {"Ack", "Nack", "FramePacket"}
              /\ wire'[j].datagram.kind \in {"Ack", "Nack", "FramePacket"}) =>
                TickRank(wire'[i].datagram) <= TickRank(wire'[j].datagram)]_vars

\* The datagrams of a kind that a step writes for an address.
WrittenOfKind(address, kind) ==
    {i \in 1..Len(wire') : wire'[i].address = address /\ wire'[i].datagram.kind = kind}

\* C17 (ACK on every tick): an iteration of the sender thread writes, for a
\* connection whose AckQueue is not empty, exactly one ACK with all pending
\* sequences and clears the queue, and no ACK for a connection whose AckQueue
\* is empty; likewise for the NackQueue.
C17_AckEveryTick ==
    [][SenderThread =>
          \A a \in DOMAIN connections \cap DOMAIN connections' :
             /\ IF connections[a].ack # {}
                THEN /\ Cardinality(WrittenOfKind(a, "Ack")) = 1
                     /\ \A i \in WrittenOfKind(a, "Ack") :
                           wire'[i].datagram.seqs = connections[a].ack
                     /\ connections'[a].ack = {}
                ELSE WrittenOfKind(a, "Ack") = {}
             /\ IF connections[a].nack # {}
                THEN /\ Cardinality(WrittenOfKind(a, "Nack")) = 1
                     /\ \A i \in WrittenOfKind(a, "Nack") :
                           wire'[i].datagram.seqs = connections[a].nack
                     /\ connections'[a].nack = {}
                ELSE WrittenOfKind(a, "Nack") = {}]_vars

\* C19 (inactivity timeout): an iteration of the sender thread that finds a
\* connection without an inbound datagram for InactivityTicks iterations
\* leaves it Disconnected (Offline, in the names of conn.rs), and it does not
\* disconnect a connection that has received one since.
C19_InactivityTimeout ==
    [][SenderThread =>
          \A a \in DOMAIN connections \cap DOMAIN connections' :
             /\ idle[a] >= InactivityTicks =>
                   connections'[a].state \in {"Disconnected", "Offline"}
             /\ idle[a] < InactivityTicks =>
                   connections'[a].state = connections[a].state]_vars

\* A sequence is the beginning of another.
IsPrefix(s1, s2) == Len(s1) <= Len(s2) /\ SubSeq(s2, 1, Len(s1)) = s1

\* What C20 says of one step of the receive thread, created being the state
\* a Connection is created in.  For an address not in the peer table the
\* table gains exactly that address, and the datagram is handled by a
\* Connection in the state created: afterwards the Connection is in that
\* state unless the handshake has moved it on.  For a known address the
\* table keeps its addresses and the Connection of the address is the one
\* that was there: what it had queued is still queued, its MTU and its
\* counter stand, and it has not fallen back to the state before the
\* handshake.  No other Connection changes.
PeerTableStep(created) ==
    \A remote \in Addresses, datagram \in PeerDatagrams :
       RecvThread(remote, datagram) =>
          /\ \A a \in DOMAIN connections \ {remote} :
                a \in DOMAIN connections' /\ connections'[a] = connections[a]
          /\ connections'[remote].address = remote
          /\ IF remote \notin DOMAIN connections
             THEN /\ DOMAIN connections' = DOMAIN connections \cup {remote}
                  /\ connections'[remote].state \in {created, "Connecting", "Connected"}
             ELSE /\ DOMAIN connections' = DOMAIN connections
                  /\ IsPrefix(connections[remote].send_queue,
                              connections'[remote].send_queue)
                  /\ connections'[remote].send_seq >= connections[remote].send_seq
                  /\ connections[remote].mtu_size > 0 =>
                        connections'[remote].mtu_size = connections[remote].mtu_size
                  /\ ~is_disconnected(connections[remote].state) =>
                        ~is_disconnected(connections'[remote].state)

\* C20 as stated (peer table): a Connection is created in state Offline for
\* a new address and handed the datagram; a known address keeps its Connection.
C20_PeerTableOffline == [][PeerTableStep("Offline")]_vars

\* C20 amended: a Connection is created in state Disconnected for a new
\* address and handed the datagram; a known address keeps its Connection.
C20_PeerTable == [][PeerTableStep("Disconnected")]_vars

\* C20 witness: the Connection of a known address has handled a frame packet
\* after the handshake datagram that created or advanced it.
C20_Witness ==
    \E a \in DOMAIN connections :
       /\ connections[a].state = "Connecting"
       /\ Arrivals(a, 0) >= 1
       /\ Len(connections[a].send_queue) >= 2

\* What C21 says of one iteration of the sender thread, evicted being the
\* state whose connections the iteration removes: a connection in that state
\* is gone from the peer table after the iteration, and a connection in any
\* other state is still in it.
EvictionStep(evicted) ==
    SenderThread =>
       \A a \in DOMAIN connections :
          IF connections[a].state = evicted
          THEN a \notin DOMAIN connections'
          ELSE a \in DOMAIN connections'

\* C21 as stated (eviction): a tick removes a connection whose state is
\* Disconnected and no connection in another state.
C21_EvictsDisconnected == [][EvictionStep("Disconnected")]_vars

\* C21 amended: a tick removes a connection whose state is Offline and no
\* connection in another state (Disconnected, Connecting, Connected).
C21_EvictsOffline == [][EvictionStep("Offline")]_vars

\* C21 witness: a tick has removed a connection that had handled a frame
\* packet before it was marked Offline, and the peer table is empty.
C21_Witness ==
    /\ connections = <<>>
    /\ recv_log # <<>>

\* The thread that takes a step: the one whose position changes, or the
\* receive thread when it reads a datagram.
Stepping(t) ==
    \/ threads'.pc[t] # threads.pc[t]
    \/ t = "recv_thread" /\ threads'.buf # threads.buf

\* C22 (exclusive access): a step that changes the peer table or a
\* Connection in it is taken by the thread that holds the Mutex, by that
\* thread alone, and no two threads are past their lock() at once; from the
\* lookup of a datagram's address to the end of Connection.recv on it, only
\* the receive thread changes the table.
C22_ExclusiveAccess ==
    [][/\ Cardinality({t \in Threads : threads.pc[t] # "start"}) <= 1
       /\ \A t \in Threads : threads.pc[t] # "start" => threads.mutex = t
       /\ connections' # connections =>
             /\ threads.mutex \in Threads
             /\ \A t \in Threads : Stepping(t) <=> t = threads.mutex
       /\ (threads.pc["recv_thread"] \in {"lookup", "recv"} /\ connections' # connections) =>
             Stepping("recv_thread")]_vars

\* C22 witness: the receive thread holds the lock between its lookup and
\* Connection.recv while send_stream has been called and a sender
\* iteration is due, on a table that all three have already worked on.
C22_Witness ==
    /\ threads.pc["recv_thread"] = "recv"
    /\ threads.mutex = "recv_thread"
    /\ \E a \in DOMAIN connections :
          /\ idle[a] >= 1
          /\ Len(connections[a].send_queue_large) >= 1

\* The deliveries of sequenced frames of a channel of an address, in order.
SequencedDeliveries(a, ch) ==
    {i \in 1..Len(callback) :
        /\ callback[i].address = a
        /\ callback[i].order_channel = Some(ch)
        /\ is_some(callback[i].sequence_index)}

\* C23 (sequenced drop): the callback is invoked for a sequenced frame only
\* if its sequence_index is greater than that of every sequenced frame
\* delivered before it on its channel.
C23_SequencedDrop ==
    \A a \in Addresses :
       \A i, j \in SequencedDeliveries(a, 0) :
          i < j => unwrap(callback[i].sequence_index) < unwrap(callback[j].sequence_index)

\* The order counter of a channel: 0 for a channel nothing was sent on.
OrderCounter(q, ch) == entry(q.order_channels, ch)[2]

\* C24 (order-index numbering): a call of insert with an ordered payload
\* that returns Ok gives every frame it emits the value of the channel's
\* order counter before the call, which is 0 on a fresh channel, leaves the
\* counter one higher, and leaves the counters of every other channel as
\* they were.
C24_OrderIndexNumbering ==
    [][\A length \in PayloadLengths, immediate \in BOOLEAN, channel \in Channels :
          (Insert(length, "ReliableOrd", immediate, channel) /\ returned'.result = "Ok") =>
             LET ch == unwrap_or(channel, 0)
             IN /\ \A f \in EmittedFrames :
                      f.order_index = Some(OrderCounter(queue, ch))
                /\ OrderCounter(queue', ch) = OrderCounter(queue, ch) + 1
                /\ \A other \in (DOMAIN queue.order_channels \cup DOMAIN queue'.order_channels) \ {ch} :
                      entry(queue'.order_channels, other) = entry(queue.order_channels, other)]_vars

RECURSIVE Without(_, _, _)
\* A sequence of writes less the ones whose place, counted from k, is in fail.
Without(writes, k, fail) ==
    IF writes = <<>> THEN <<>>
    ELSE (IF k \in fail THEN <<>> ELSE <<Head(writes)>>)
         \o Without(Tail(writes), k + 1, fail)

\* The datagrams a call wrote after those of before.
Suffix(before, after) == SubSeq(after, Len(before) + 1, Len(after))

\* C25 (failed write contained): a call of insert or update during which
\* writes fail returns what it returns without the failures and leaves the
\* queue, its RecoveryQueue included, as it leaves it without them, and every
\* datagram it writes without them whose write does not fail is written, in
\* order; an iteration of the sender thread during which writes fail removes
\* no connection that is not Offline, changes no connection and writes every
\* queued datagram whose write does not fail, in order.
C25_FailedWriteContained ==
    [][/\ \A length \in FailingLengths, reliability \in FailingReliabilities,
             immediate \in BOOLEAN, fail \in Failures :
             InsertFailing(length, reliability, immediate, None, fail) =>
                LET clean == insert(Call({}), length, reliability, immediate, None)
                IN /\ queue' = clean.y.q
                   /\ returned'.result = clean.result
                   /\ Suffix(socket, socket') = Without(Suffix(socket, clean.y.out), 1, fail)
       /\ \A fail \in Failures :
             UpdateFailing(fail) =>
                \E stale \in SUBSET DOMAIN queue.ack :
                   LET clean == update(Call({}), stale)
                   IN /\ queue' = clean.q
                      /\ Suffix(socket, socket') = Without(Suffix(socket, clean.out), 1, fail)
       /\ \A fail \in Failures :
             SenderThreadFailing(fail) =>
                \A a \in DOMAIN connections :
                   connections[a].state # "Offline" =>
                      /\ a \in DOMAIN connections'
                      /\ connections'[a] = connections[a]
                      /\ SelectSeq(wire', LAMBDA w : w.address = a)
                            = Without(Outbound(a, connections[a]), 1, fail)]_vars

\* C25 witness: the RecoveryQueue holds a packet although a write of the
\* queue has failed, and a later write has succeeded.
C25_Witness ==
    /\ queue.ack # <<>>
    /\ Len(socket) >= 1
    /\ Len(socket) < queue.send_seq

\* C26 (codec round trip): FramePacket::compose on the bytes of
\* FramePacket::parse of a packet returns a packet with the same seq and the
\* same frames in the same order, field by field.
C26_CodecRoundTrip ==
    ("call" \in DOMAIN returned /\ returned.call = "compose") =>
       /\ returned.composed.outcome = "returns"
       /\ returned.composed.value.seq = returned.packet.seq
       /\ returned.composed.value.frames = returned.packet.frames

\* C27 (send_queue drained once): an iteration of the sender thread writes
\* every datagram of a connection's send_queue once, in order, and leaves the
\* send_queue of the connection in the peer table without them, so that the
\* next iteration writes only what was queued since.
C27_SendQueueDrained ==
    [][SenderThread =>
          \A a \in DOMAIN connections \cap DOMAIN connections' :
             /\ SelectSeq(wire', LAMBDA w : w.address = a) = Outbound(a, connections[a])
             /\ connections'[a].send_queue = <<>>]_vars

\* The reliable frames written to the socket so far, in the order of their
\* first writing: a frame packet written again by update is a
\* retransmission and counts once.
ReliableEmitted(written) ==
    LET places == [i \in 1..Len(written) |-> i]
        first == SelectSeq(places, LAMBDA i : \A j \in 1..(i - 1) : written[j] # written[i])
        frames == Flatten([k \in 1..Len(first) |-> written[first[k]].frames])
    IN SelectSeq(frames, LAMBDA f : is_reliable(f.reliability))

\* C28 (reliable index): the reliable frames written carry the reliable
\* indices 0, 1, 2, ... in the order of their writing, without gap or
\* repeat, and a call of insert that emits no reliable frame leaves the
\* reliable-index counter as it was.
C28_ReliableIndexContiguous ==
    [][/\ \A k \in 1..Len(ReliableEmitted(socket')) :
             ReliableEmitted(socket')[k].reliable_index = Some(k - 1)
       /\ \A length \in PayloadLengths, reliability \in RequestedReliabilities,
             immediate \in BOOLEAN, channel \in Channels :
             (/\ Insert(length, reliability, immediate, channel)
              /\ \A f \in EmittedFrames : ~is_reliable(f.reliability)) =>
                queue'.reliable_seq = queue.reliable_seq]_vars

\* C29 (fragment terminates): a call of Connection::fragment returns; when
\* mtu_size is positive it has made ceil(length / mtu_size) fragments with
\* the indices 0, 1, 2, ... whose bodies are the consecutive slices of
\* mtu_size bytes of the stream, the last one shorter if need be; and
\* fragment_id is one more than before, modulo 2^16.
C29_FragmentTerminates ==
    ("call" \in DOMAIN returned /\ returned.call = "fragment") =>
       LET mtu == returned.mtu_size
           length == returned.length
           count == (length + mtu - 1) \div mtu
       IN /\ returned.outcome = "returns"
          /\ mtu > 0 =>
                /\ Len(returned.fragments) = count
                /\ \A i \in 1..Len(returned.fragments) :
                      /\ returned.fragments[i].index = i - 1
                      /\ returned.fragments[i].body =
                            Slice((i - 1) * mtu, Min({mtu, length - (i - 1) * mtu}))
          /\ returned.connection.fragment_id = (returned.fragment_id + 1) % 65536

\* C30 (insert error): a call of insert that returns an error leaves the
\* queue as it was, with its counters, its fragment queue and its
\* RecoveryQueue, and writes nothing to the socket.
C30_InsertErrorUnchanged ==
    [][\A length \in PayloadLengths, reliability \in RequestedReliabilities,
          immediate \in BOOLEAN, channel \in Channels :
          (Insert(length, reliability, immediate, channel) /\ returned'.result # "Ok") =>
             /\ queue' = queue
             /\ socket' = socket]_vars

====
